---- MODULE Spec2Model ----
(***************************************************************************)
(* Job control of yash (src/job.c): the job list, the current/previous job *)
(* numbers, the reaper do_wait, the waiter wait_for_job and the status     *)
(* printer print_job_status, as a state machine.                           *)
(*                                                                         *)
(* joblist is a TLA+ sequence: joblist[i + 1] is joblist.contents[i] and   *)
(* Len(joblist) is joblist.length.                                         *)
(***************************************************************************)
EXTENDS Integers, Sequences, FiniteSets, TLC

\* ---------------------------------------------------------------- bounds
\* Most numbered jobs the job list holds at once.
MaxJobs == 3
\* Most processes of one job.
MaxProcs == 2
\* Process ids the executor hands out are 1..MaxPid.
MaxPid == 3
\* Most waitpid calls of one do_wait drain.
MaxCalls == 2
\* Most numbered jobs at once where the reaper is checked on jobs of several
\* processes.
MaxReapJobs == 2
\* Most numbered jobs at once where the waiter is checked.
MaxWaitJobs == 1

\* ------------------------------------------------------------- constants
ACTIVE_JOBNO == 0
\* The "all jobs" argument of print_job_status: no valid job number.
PJS_ALL == -1

JS_RUNNING == "JS_RUNNING"
JS_STOPPED == "JS_STOPPED"
JS_DONE == "JS_DONE"

NULL == [null |-> TRUE]

\* --------------------------------------------- status words (sys/wait.h)
\* The raw status words of waitpid, in the encoding of the C library:
\* exited: code * 256; signalled: signal (+ 128 with a core dump);
\* stopped: signal * 256 + 127; continued: 65535.
WIFEXITED(status) == status % 128 = 0
WEXITSTATUS(status) == (status \div 256) % 256
WIFSIGNALED(status) == status % 128 # 0 /\ status % 128 # 127
WTERMSIG(status) == status % 128
WIFSTOPPED(status) == status % 256 = 127
WSTOPSIG(status) == (status \div 256) % 256
WIFCONTINUED(status) == status = 65535
WCOREDUMP(status) == (status \div 128) % 2 = 1

W_EXITED0 == 0
W_STOPPED_TSTP == 5247
W_CONTINUED == 65535

\* The status words the operating system reports in this model.
Statuses == {W_EXITED0, W_STOPPED_TSTP, W_CONTINUED}

VARIABLES
    joblist,            \* static plist_T joblist
    current_jobnumber,  \* static size_t current_jobnumber
    previous_jobnumber, \* static size_t previous_jobnumber
    waitopts_continued, \* do_wait's static waitopts has WCONTINUED
    last,               \* the operation that led here and its arguments
    children,           \* the operating system's child processes, by process id
    sig,                \* SIGCHLD: blocked, pending, received by the handler
    waiter              \* the call of wait_for_job in progress, if any

vars == <<joblist, current_jobnumber, previous_jobnumber, waitopts_continued, last,
          children, sig, waiter>>

\* The operating system and the signals, which the operations on the job list
\* leave alone.
env == <<children, sig, waiter>>

\* The job list and the two designations, as one value the operations map.
Table == [joblist |-> joblist,
          current_jobnumber |-> current_jobnumber,
          previous_jobnumber |-> previous_jobnumber]

\* ------------------------------------------------------------ the job list

get_job(jl, jobnumber) ==
    IF jobnumber >= 0 /\ jobnumber < Len(jl) THEN jl[jobnumber + 1] ELSE NULL

\* The loop of trim_joblist: while (tail > 0 && contents[--tail] == NULL);
RECURSIVE trim_tail(_, _)
trim_tail(jl, tail) ==
    IF tail > 0
    THEN IF jl[(tail - 1) + 1] = NULL THEN trim_tail(jl, tail - 1) ELSE tail - 1
    ELSE tail

\* Both branches (pl_setmax and pl_remove) cut the list to tail + 1 elements.
\* A faulty trim_joblist that closes the gaps of the list, moving the jobs
\* above a gap down: C14 tells it from trim_joblist.
trim_joblist_closing_gaps(jl) ==
    <<Head(jl)>> \o SelectSeq(Tail(jl), LAMBDA job : job # NULL)

trim_joblist(jl) == SubSeq(jl, 1, trim_tail(jl, Len(jl)) + 1)

\* First loop of find_next_job: the highest stopped job other than excl.
RECURSIVE find_next_stopped(_, _, _)
find_next_stopped(jl, excl, jobnumber) ==
    IF jobnumber > 0
    THEN IF /\ jobnumber # excl
            /\ get_job(jl, jobnumber) # NULL
            /\ get_job(jl, jobnumber).j_status = JS_STOPPED
         THEN jobnumber
         ELSE find_next_stopped(jl, excl, jobnumber - 1)
    ELSE 0

\* Second loop of find_next_job: the highest job other than excl.
RECURSIVE find_next_any(_, _, _)
find_next_any(jl, excl, jobnumber) ==
    IF jobnumber > 0
    THEN IF jobnumber # excl /\ get_job(jl, jobnumber) # NULL
         THEN jobnumber
         ELSE find_next_any(jl, excl, jobnumber - 1)
    ELSE 0

\* A faulty find_next_job that may give the excluded job: C5 tells it from
\* find_next_job.
find_next_job_not_excluding(jl, excl) ==
    LET stopped == find_next_stopped(jl, 0, Len(jl) - 1)
    IN  IF stopped > 0 THEN stopped ELSE find_next_any(jl, 0, Len(jl) - 1)

\* A faulty find_next_job that does not prefer stopped jobs: C6 tells it from
\* find_next_job.
find_next_job_highest(jl, excl) == find_next_any(jl, excl, Len(jl) - 1)

find_next_job(jl, excl) ==
    LET stopped == find_next_stopped(jl, excl, Len(jl) - 1)
    IN  IF stopped > 0 THEN stopped ELSE find_next_any(jl, excl, Len(jl) - 1)

set_current_jobnumber(t, no) ==
    LET prev1 == t.current_jobnumber
        jobnumber == IF no = 0
                     THEN IF prev1 = 0 \/ get_job(t.joblist, prev1) = NULL
                          THEN find_next_job(t.joblist, 0)
                          ELSE prev1
                     ELSE no
    IN  [t EXCEPT !.current_jobnumber = jobnumber,
                  !.previous_jobnumber =
                      IF prev1 = 0 \/ prev1 = jobnumber
                      THEN find_next_job(t.joblist, jobnumber)
                      ELSE prev1]

\* The search of add_job for an empty element, from index i; 0 if there is none.
RECURSIVE first_empty(_, _)
first_empty(jl, i) ==
    IF i < Len(jl)
    THEN IF jl[i + 1] = NULL THEN i ELSE first_empty(jl, i + 1)
    ELSE 0

\* A faulty designation update that makes every added job the current one:
\* C18 tells it from add_job_designate.
add_job_designate_always(t, current, i) == set_current_jobnumber(t, i)

\* A faulty designation update that never makes the added job the previous
\* one: C19 tells it from add_job_designate.
add_job_designate_no_previous(t, current, i) ==
    IF current \/ t.current_jobnumber = 0
    THEN set_current_jobnumber(t, i)
    ELSE t

\* The designation update of add_job, the same after either placement.
add_job_designate(t, current, i) ==
    IF current \/ t.current_jobnumber = 0
    THEN set_current_jobnumber(t, i)
    ELSE IF t.previous_jobnumber = 0
         THEN [t EXCEPT !.previous_jobnumber = i]
         ELSE t

\* A faulty add_job that appends the job though an element is empty: C4 tells
\* it from add_job.
add_job_appending(t, current) ==
    LET job == t.joblist[ACTIVE_JOBNO + 1]
        jl0 == [t.joblist EXCEPT ![ACTIVE_JOBNO + 1] = NULL]
    IN  add_job_designate([t EXCEPT !.joblist = Append(jl0, job)], current, Len(jl0))

add_job(t, current) ==
    LET job == t.joblist[ACTIVE_JOBNO + 1]
        jl0 == [t.joblist EXCEPT ![ACTIVE_JOBNO + 1] = NULL]
        i == first_empty(jl0, 1)
    IN  IF i # 0
        THEN add_job_designate([t EXCEPT !.joblist = [jl0 EXCEPT ![i + 1] = job]],
                               current, i)
        ELSE add_job_designate([t EXCEPT !.joblist = Append(jl0, job)],
                               current, Len(jl0))

\* A faulty remove_job that leaves the previous job number alone when the
\* previous job is removed: C1 tells it from remove_job.
remove_job_keeping_previous(t, jobnumber) ==
    LET jl1 == trim_joblist([t.joblist EXCEPT ![jobnumber + 1] = NULL])
    IN  IF jobnumber = t.current_jobnumber
        THEN [joblist |-> jl1,
              current_jobnumber |-> t.previous_jobnumber,
              previous_jobnumber |-> find_next_job(jl1, t.previous_jobnumber)]
        ELSE [t EXCEPT !.joblist = jl1]

\* A faulty remove_job that, the current job removed, makes the previous job
\* the current one and leaves it the previous one too: C2 tells it from
\* remove_job.
remove_job_keeping_both(t, jobnumber) ==
    LET jl1 == trim_joblist([t.joblist EXCEPT ![jobnumber + 1] = NULL])
    IN  IF jobnumber = t.current_jobnumber
        THEN [joblist |-> jl1,
              current_jobnumber |-> t.previous_jobnumber,
              previous_jobnumber |-> t.previous_jobnumber]
        ELSE IF jobnumber = t.previous_jobnumber
             THEN [joblist |-> jl1,
                   current_jobnumber |-> t.current_jobnumber,
                   previous_jobnumber |-> find_next_job(jl1, t.current_jobnumber)]
             ELSE [t EXCEPT !.joblist = jl1]

remove_job(t, jobnumber) ==
    LET jl1 == trim_joblist([t.joblist EXCEPT ![jobnumber + 1] = NULL])
    IN  IF jobnumber = t.current_jobnumber
        THEN [joblist |-> jl1,
              current_jobnumber |-> t.previous_jobnumber,
              previous_jobnumber |-> find_next_job(jl1, t.previous_jobnumber)]
        ELSE IF jobnumber = t.previous_jobnumber
             THEN [joblist |-> jl1,
                   current_jobnumber |-> t.current_jobnumber,
                   previous_jobnumber |-> find_next_job(jl1, t.current_jobnumber)]
             ELSE [t EXCEPT !.joblist = jl1]

\* The loop of remove_all_jobs: for (i = 0; i < joblist.length; i++) remove_job(i);
RECURSIVE remove_all_loop(_, _)
remove_all_loop(t, i) ==
    IF i < Len(t.joblist) THEN remove_all_loop(remove_job(t, i), i + 1) ELSE t

\* The loop of remove_all_jobs with what it frees and writes: the jobs handed
\* to free_job, in order, and for every joblist.contents[i] = NULL of remove_job
\* the index with the length of the list at that time.
RECURSIVE remove_all_trace(_, _, _, _)
remove_all_trace(t, i, freed, written) ==
    IF i < Len(t.joblist)
    THEN remove_all_trace(remove_job(t, i), i + 1,
                          IF get_job(t.joblist, i) # NULL
                          THEN Append(freed, get_job(t.joblist, i))
                          ELSE freed,
                          written \cup {[index |-> i, length |-> Len(t.joblist)]})
    ELSE [t |-> t, freed |-> freed, written |-> written]

\* A faulty remove_all_jobs that starts at the first numbered job and leaves
\* the active job: C15 tells it from remove_all_jobs.
remove_all_jobs_numbered(t) ==
    [joblist |-> trim_joblist(remove_all_loop(t, 1).joblist),
     current_jobnumber |-> 0,
     previous_jobnumber |-> 0]

remove_all_jobs(t) ==
    [joblist |-> trim_joblist(remove_all_loop(t, 0).joblist),
     current_jobnumber |-> 0,
     previous_jobnumber |-> 0]

\* The loop of job_count over the elements from index i.
RECURSIVE job_count_from(_, _)
job_count_from(jl, i) ==
    IF i < Len(jl)
    THEN (IF jl[i + 1] # NULL THEN 1 ELSE 0) + job_count_from(jl, i + 1)
    ELSE 0

\* A job_count that passes over the active job: C7 tells it from job_count.
job_count_numbered(jl) == job_count_from(jl, 1)

job_count(jl) == job_count_from(jl, 0)

\* The loop of stopped_job_count over the elements from index i.
RECURSIVE stopped_job_count_from(_, _)
stopped_job_count_from(jl, i) ==
    IF i < Len(jl)
    THEN (IF jl[i + 1] # NULL /\ jl[i + 1].j_status = JS_STOPPED THEN 1 ELSE 0)
         + stopped_job_count_from(jl, i + 1)
    ELSE 0

stopped_job_count(jl) == stopped_job_count_from(jl, 0)

\* ------------------------------------------------------------- the reaper

EINTR == "EINTR"
ECHILD == "ECHILD"
EINVAL == "EINVAL"
EIO == "EIO"
NOERR == "NOERR"

\* What one call of waitpid(-1, &status, waitopts) can give: a child's pid with
\* its status word, 0 (no child has changed), or -1 with an errno.
WaitpidResults ==
    [pid : 1..MaxPid, status : Statuses, errno : {NOERR}]
    \cup {[pid |-> 0, status |-> 0, errno |-> NOERR]}
    \cup [pid : {-1}, status : {0}, errno : {EINTR, ECHILD, EINVAL, EIO}]

\* The search of do_wait for the process of a pid, from (jobnumber, pnumber) on:
\* the first match in job order, slot 0 included; <<>> when there is none.
RECURSIVE find_process(_, _, _, _)
find_process(jl, pid, jobnumber, pnumber) ==
    IF jobnumber < Len(jl)
    THEN IF jl[jobnumber + 1] # NULL /\ pnumber < Len(jl[jobnumber + 1].j_procs)
         THEN IF jl[jobnumber + 1].j_procs[pnumber + 1].pr_pid = pid
              THEN <<jobnumber, pnumber>>
              ELSE find_process(jl, pid, jobnumber, pnumber + 1)
         ELSE find_process(jl, pid, jobnumber + 1, 0)
    ELSE <<>>

\* A faulty found: that decodes the state but does not keep the status word:
\* C13 tells it from set_process_status.
set_process_status_uncoded(pr, status) ==
    [pr EXCEPT !.pr_status = IF WIFEXITED(status) \/ WIFSIGNALED(status)
                             THEN JS_DONE
                             ELSE IF WIFSTOPPED(status)
                                  THEN JS_STOPPED
                                  ELSE IF WIFCONTINUED(status) THEN JS_RUNNING ELSE @]

\* found: the process takes the status word and the state it decodes to.
set_process_status(pr, status) ==
    [pr EXCEPT !.pr_statuscode = status,
               !.pr_status = IF WIFEXITED(status) \/ WIFSIGNALED(status)
                             THEN JS_DONE
                             ELSE IF WIFSTOPPED(status)
                                  THEN JS_STOPPED
                                  ELSE IF WIFCONTINUED(status) THEN JS_RUNNING ELSE @]

\* The loop of do_wait over a job's processes, from index i, that leaves at the
\* first running one.
RECURSIVE decide_job_status(_, _, _)
decide_job_status(procs, i, anystopped) ==
    IF i < Len(procs)
    THEN IF procs[i + 1].pr_status = JS_RUNNING
         THEN JS_RUNNING
         ELSE decide_job_status(procs, i + 1,
                                anystopped \/ procs[i + 1].pr_status = JS_STOPPED)
    ELSE IF anystopped THEN JS_STOPPED ELSE JS_DONE

\* A faulty update that gives the job the state of the process that changed:
\* C3 tells it from update_job.
update_job_from_process(job, pnumber, status) ==
    LET procs == [job.j_procs EXCEPT ![pnumber + 1] = set_process_status(@, status)]
        newstatus == procs[pnumber + 1].pr_status
    IN  [job EXCEPT !.j_procs = procs,
                    !.j_status = newstatus,
                    !.j_statuschanged = IF newstatus # job.j_status THEN TRUE ELSE @]

\* found ... goto start: one process updated, its job's status decided again.
update_job(job, pnumber, status) ==
    LET procs == [job.j_procs EXCEPT ![pnumber + 1] = set_process_status(@, status)]
        newstatus == decide_job_status(procs, 0, FALSE)
    IN  [job EXCEPT !.j_procs = procs,
                    !.j_status = newstatus,
                    !.j_statuschanged = IF newstatus # job.j_status THEN TRUE ELSE @]

\* waitpid reports a continued child only when asked with WCONTINUED.
waitpid_can_return(wc, r) == (r.pid > 0 /\ WIFCONTINUED(r.status)) => wc

do_wait_return(jl, wc, xerror, rs) ==
    [joblist |-> jl, waitopts_continued |-> wc, xerror |-> xerror,
     returned |-> TRUE, unread |-> rs]

\* do_wait over the results rs of its successive waitpid calls. returned is
\* FALSE when rs ends before do_wait returns or holds a result waitpid cannot
\* give; unread are the results after the one do_wait returned on.
RECURSIVE do_wait(_, _, _)
\* A faulty do_wait that retries after EINVAL with WCONTINUED still set: C11
\* tells it from do_wait.
do_wait_keeping_continued(jl, wc, rs) ==
    IF rs = <<>> \/ ~waitpid_can_return(wc, Head(rs))
    THEN [joblist |-> jl, waitopts_continued |-> wc, xerror |-> FALSE,
          returned |-> FALSE, unread |-> rs]
    ELSE LET r == Head(rs)
             found == find_process(jl, r.pid, 0, 0)
         IN  IF r.pid < 0
             THEN IF r.errno = EINTR
                  THEN do_wait(jl, wc, Tail(rs))
                  ELSE IF r.errno = ECHILD
                       THEN do_wait_return(jl, wc, FALSE, Tail(rs))
                       ELSE IF r.errno = EINVAL /\ wc
                            THEN do_wait(jl, wc, Tail(rs))
                            ELSE do_wait_return(jl, wc, TRUE, Tail(rs))
             ELSE IF r.pid = 0
                  THEN do_wait_return(jl, wc, FALSE, Tail(rs))
                  ELSE IF found = <<>>
                       THEN do_wait(jl, wc, Tail(rs))
                       ELSE do_wait([jl EXCEPT ![found[1] + 1] =
                                        update_job(@, found[2], r.status)],
                                    wc, Tail(rs))

do_wait(jl, wc, rs) ==
    IF rs = <<>> \/ ~waitpid_can_return(wc, Head(rs))
    THEN [joblist |-> jl, waitopts_continued |-> wc, xerror |-> FALSE,
          returned |-> FALSE, unread |-> rs]
    ELSE LET r == Head(rs)
             found == find_process(jl, r.pid, 0, 0)
         IN  IF r.pid < 0
             THEN IF r.errno = EINTR
                  THEN do_wait(jl, wc, Tail(rs))
                  ELSE IF r.errno = ECHILD
                       THEN do_wait_return(jl, wc, FALSE, Tail(rs))
                       ELSE IF r.errno = EINVAL /\ wc
                            THEN do_wait(jl, FALSE, Tail(rs))
                            ELSE do_wait_return(jl, wc, TRUE, Tail(rs))
             ELSE IF r.pid = 0
                  THEN do_wait_return(jl, wc, FALSE, Tail(rs))
                  ELSE IF found = <<>>
                       THEN do_wait(jl, wc, Tail(rs))
                       ELSE do_wait([jl EXCEPT ![found[1] + 1] =
                                        update_job(@, found[2], r.status)],
                                    wc, Tail(rs))

\* ------------------------------------------------------ the status printer

\* A faulty print_job_status of one job number that removes a stopped job as
\* it removes a finished one: C8 tells it from print_one_job.
print_one_job_removing_stopped(t, jobnumber, changedonly) ==
    LET job == get_job(t.joblist, jobnumber)
        current == IF jobnumber = t.current_jobnumber
                   THEN "+"
                   ELSE IF jobnumber = t.previous_jobnumber THEN "-" ELSE " "
        t1 == [t EXCEPT !.joblist[jobnumber + 1].j_statuschanged = FALSE]
    IN  IF job = NULL \/ (changedonly /\ ~job.j_statuschanged)
        THEN [t |-> t, out |-> <<>>]
        ELSE [t |-> IF job.j_status # JS_RUNNING THEN remove_job(t1, jobnumber) ELSE t1,
              out |-> <<[jobnumber |-> jobnumber, current |-> current,
                         j_status |-> job.j_status]>>]

\* print_job_status of one job number: the line printed (its job number and
\* current-job marker) and the table afterwards.
print_one_job(t, jobnumber, changedonly) ==
    LET job == get_job(t.joblist, jobnumber)
        current == IF jobnumber = t.current_jobnumber
                   THEN "+"
                   ELSE IF jobnumber = t.previous_jobnumber THEN "-" ELSE " "
        t1 == [t EXCEPT !.joblist[jobnumber + 1].j_statuschanged = FALSE]
    IN  IF job = NULL \/ (changedonly /\ ~job.j_statuschanged)
        THEN [t |-> t, out |-> <<>>]
        ELSE [t |-> IF job.j_status = JS_DONE THEN remove_job(t1, jobnumber) ELSE t1,
              out |-> <<[jobnumber |-> jobnumber, current |-> current,
                         j_status |-> job.j_status]>>]

\* The PJS_ALL loop: for (i = 1; i < joblist.length; i++) print_job_status(i, ...);
RECURSIVE print_all_jobs(_, _, _, _)
print_all_jobs(t, i, changedonly, out) ==
    IF i < Len(t.joblist)
    THEN LET r == print_one_job(t, i, changedonly)
         IN  print_all_jobs(r.t, i + 1, changedonly, out \o r.out)
    ELSE [t |-> t, out |-> out]

print_job_status(t, jobnumber, changedonly) ==
    IF jobnumber = PJS_ALL
    THEN print_all_jobs(t, 1, changedonly, <<>>)
    ELSE print_one_job(t, jobnumber, changedonly)

\* ------------------------------------------------------ status derivation

\* The offset added to a signal number to make an exit status.
TERMSIGOFFSET == 384

\* What a function gives when it runs into assert(false).
AssertFalse == -1

calc_status(status) ==
    IF WIFEXITED(status) THEN WEXITSTATUS(status)
    ELSE IF WIFSIGNALED(status) THEN WTERMSIG(status) + TERMSIGOFFSET
    ELSE IF WIFSTOPPED(status) THEN WSTOPSIG(status) + TERMSIGOFFSET
    ELSE IF WIFCONTINUED(status) THEN 0
    ELSE AssertFalse

\* The loop of calc_status_of_job over the processes of a stopped job, from
\* index i down: for (int i = job->j_pcount; --i >= 0; )
RECURSIVE calc_status_of_stopped(_, _)
calc_status_of_stopped(procs, i) ==
    IF i >= 0
    THEN IF procs[i + 1].pr_status = JS_STOPPED
         THEN calc_status(procs[i + 1].pr_statuscode)
         ELSE calc_status_of_stopped(procs, i - 1)
    ELSE AssertFalse

\* A faulty calc_status_of_job that takes the status of a stopped job from its
\* last process: C16 tells it from calc_status_of_job.
calc_status_of_job_from_tail(job) ==
    LET tail == job.j_procs[Len(job.j_procs)]
    IN  IF job.j_status = JS_DONE
        THEN IF tail.pr_pid # 0 THEN calc_status(tail.pr_statuscode)
                                ELSE tail.pr_statuscode
        ELSE IF job.j_status = JS_STOPPED
             THEN calc_status(tail.pr_statuscode)
             ELSE AssertFalse

calc_status_of_job(job) ==
    LET tail == job.j_procs[Len(job.j_procs)]
    IN  IF job.j_status = JS_DONE
        THEN IF tail.pr_pid # 0 THEN calc_status(tail.pr_statuscode)
                                ELSE tail.pr_statuscode
        ELSE IF job.j_status = JS_STOPPED
             THEN calc_status_of_stopped(job.j_procs, Len(job.j_procs) - 1)
             ELSE AssertFalse

\* The name of a signal, without the SIG.
get_signal_name(signum) ==
    IF signum = 9 THEN "KILL"
    ELSE IF signum = 11 THEN "SEGV"
    ELSE IF signum = 19 THEN "STOP"
    ELSE IF signum = 20 THEN "TSTP"
    ELSE "?"

\* exitstatus: "Done" for EXIT_SUCCESS, else "Done(%d)".
exit_status_string(status) ==
    IF status = 0 THEN "Done" ELSE "Done(" \o ToString(status) \o ")"

\* get_process_status_string. For a killed process status is first made the
\* number of the signal, and WCOREDUMP is then asked of that number.
get_process_status_string(p) ==
    IF p.pr_status = JS_RUNNING THEN "Running"
    ELSE IF p.pr_status = JS_STOPPED
    THEN "Stopped(SIG" \o get_signal_name(WSTOPSIG(p.pr_statuscode)) \o ")"
    ELSE IF p.pr_pid = 0 THEN exit_status_string(p.pr_statuscode)
    ELSE IF WIFEXITED(p.pr_statuscode)
    THEN exit_status_string(WEXITSTATUS(p.pr_statuscode))
    ELSE LET status == WTERMSIG(p.pr_statuscode)
         IN  IF WCOREDUMP(status)
             THEN "Killed (SIG" \o get_signal_name(status) \o ": core dumped)"
             ELSE "Killed (SIG" \o get_signal_name(status) \o ")"

\* ------------------------------------------------------------ environment

\* Sequences over S of length 1..n.
RECURSIVE SeqsUpTo(_, _)
SeqsUpTo(S, n) ==
    IF n = 0 THEN {}
    ELSE LET shorter == SeqsUpTo(S, n - 1)
         IN  {<<x>> : x \in S} \cup shorter
             \cup {Append(q, x) : q \in {p \in shorter : Len(p) = n - 1}, x \in S}

\* The process ids the job list holds.
PidsInUse(jl) ==
    {jl[i].j_procs[k].pr_pid :
        <<i, k>> \in {<<j, n>> \in (1..Len(jl)) \X (1..MaxProcs) :
                         jl[j] # NULL /\ n <= Len(jl[j].j_procs)}} \ {0}

\* A process the executor forked, and one it ran without forking.
ForkedProcess(pid) == [pr_pid |-> pid, pr_status |-> JS_RUNNING, pr_statuscode |-> 0]
UnforkedProcess == [pr_pid |-> 0, pr_status |-> JS_DONE, pr_statuscode |-> 0]

NewJob(procs) ==
    [j_procs |-> procs,
     j_status |-> decide_job_status(procs, 0, FALSE),
     j_statuschanged |-> FALSE]

\* The jobs the executor can hand to set_active_job: 1..maxprocs processes, at
\* least one of them forked, the others run unforked. Process ids matter to the
\* code by equality alone, so the forked ones get, in order, the lowest ids
\* that no process of the job list has.
NewJobsOf(free, maxprocs, unforked) ==
    LET pidsof(q) == {q[a].pr_pid : a \in 1..Len(q)} \ {0}
    IN  {NewJob(procs) :
            procs \in {q \in SeqsUpTo(unforked
                                      \cup {ForkedProcess(pid) : pid \in free},
                                      maxprocs) :
                          /\ pidsof(q) # {}
                          /\ \A p \in pidsof(q), f \in free \ pidsof(q) : p < f
                          /\ \A a, b \in 1..Len(q) :
                                 (a < b /\ q[a].pr_pid # 0 /\ q[b].pr_pid # 0)
                                     => q[a].pr_pid < q[b].pr_pid}}

NewJobsFrom(free, maxprocs) == NewJobsOf(free, maxprocs, {UnforkedProcess})

NewJobs(jl, maxprocs) == NewJobsFrom((1..MaxPid) \ PidsInUse(jl), maxprocs)

\* The numbered jobs of the list.
NumberedJobs(jl) == {i \in 1..(Len(jl) - 1) : jl[i + 1] # NULL}

\* A child's status change, "no child has changed", and the failures of waitpid.
ChildResults == {r \in WaitpidResults : r.pid > 0}
NoChange == [pid |-> 0, status |-> 0, errno |-> NOERR]
Failure(errno) == [pid |-> -1, status |-> 0, errno |-> errno]

\* The waitpid results of one drain that meets no failure: up to n status
\* changes, then "no child has changed".
RECURSIVE QuietRuns(_)
QuietRuns(n) ==
    IF n = 0 THEN {<<NoChange>>}
    ELSE QuietRuns(n - 1)
         \cup {<<r>> \o q : r \in ChildResults,
                            q \in {p \in QuietRuns(n - 1) : Len(p) = n}}

\* The waitpid results of one drain, failures included: up to n results after
\* which do_wait may call waitpid again, then one it may return on.
RECURSIVE FailingRuns(_)
FailingRuns(n) ==
    IF n = 0
    THEN {<<r>> : r \in {NoChange, Failure(ECHILD), Failure(EINVAL), Failure(EIO)}}
    ELSE FailingRuns(n - 1)
         \cup {<<r>> \o q : r \in ChildResults \cup {Failure(EINTR), Failure(EINVAL)},
                            q \in {p \in FailingRuns(n - 1) : Len(p) = n}}

QuietWaitpidRuns == QuietRuns(MaxCalls - 1)
WaitpidRuns == FailingRuns(MaxCalls - 1)

\* A process id no child has, and a child just forked.
NoChild == [state |-> "none", changed |-> FALSE]
RunningChild == [state |-> "running", changed |-> FALSE]

\* ---------------------------------------------------------------- actions

\* What the history records: the operation, its job number, its flag (add_job's
\* current, print_job_status's changedonly, for remove_job whether the job was
\* the current one), the lines it printed, whether it called xerror.
Done(op, jobnumber, flag, printed, xerror) ==
    last' = [op |-> op, jobnumber |-> jobnumber, flag |-> flag,
             printed |-> printed, xerror |-> xerror]

SetTable(t) ==
    /\ joblist' = t.joblist
    /\ current_jobnumber' = t.current_jobnumber
    /\ previous_jobnumber' = t.previous_jobnumber

Init ==
    /\ joblist = <<NULL>>
    /\ current_jobnumber = 0
    /\ previous_jobnumber = 0
    /\ waitopts_continued = TRUE
    /\ last = [op |-> "init_job", jobnumber |-> 0, flag |-> FALSE,
               printed |-> 0, xerror |-> FALSE]
    /\ children = [pid \in 1..MaxPid |-> NoChild]
    /\ sig = [blocked |-> FALSE, pending |-> FALSE, received |-> FALSE]
    /\ waiter = [pc |-> "idle", jobnumber |-> 0, return_on_stop |-> FALSE,
                 held_on_entry |-> FALSE, waited |-> FALSE, unblocks |-> 0]

\* set_active_job(job), while fewer than maxjobs jobs are numbered.
SetActiveJobOf(maxjobs, maxprocs) ==
    /\ waiter.pc = "idle"
    /\ UNCHANGED env
    /\ joblist[ACTIVE_JOBNO + 1] = NULL
    /\ Cardinality(NumberedJobs(joblist)) < maxjobs
    /\ \E job \in NewJobs(joblist, maxprocs) :
          joblist' = [joblist EXCEPT ![ACTIVE_JOBNO + 1] = job]
    /\ UNCHANGED <<current_jobnumber, previous_jobnumber, waitopts_continued>>
    /\ Done("set_active_job", ACTIVE_JOBNO, FALSE, 0, FALSE)

AddJob ==
    /\ waiter.pc = "idle"
    /\ UNCHANGED env
    /\ joblist[ACTIVE_JOBNO + 1] # NULL
    /\ \E current \in BOOLEAN :
          /\ SetTable(add_job(Table, current))
          /\ Done("add_job", 0, current, 0, FALSE)
    /\ UNCHANGED waitopts_continued

RemoveJob ==
    /\ waiter.pc = "idle"
    /\ UNCHANGED env
    /\ \E jobnumber \in 0..(Len(joblist) - 1) :
          /\ joblist[jobnumber + 1] # NULL
          /\ SetTable(remove_job(Table, jobnumber))
          /\ Done("remove_job", jobnumber, jobnumber = current_jobnumber, 0, FALSE)
    /\ UNCHANGED waitopts_continued

RemoveAllJobs ==
    /\ waiter.pc = "idle"
    /\ UNCHANGED env
    /\ SetTable(remove_all_jobs(Table))
    /\ Done("remove_all_jobs", 0, FALSE, 0, FALSE)
    /\ UNCHANGED waitopts_continued

\* do_wait(), its waitpid calls giving one of runs.
DoWaitOf(runs) ==
    /\ waiter.pc = "idle"
    /\ UNCHANGED env
    /\ \E rs \in runs :
          LET r == do_wait(joblist, waitopts_continued, rs)
          IN  /\ r.returned
              /\ r.unread = <<>>
              /\ joblist' = r.joblist
              /\ waitopts_continued' = r.waitopts_continued
              /\ Done("do_wait", 0, FALSE, 0, r.xerror)
    /\ UNCHANGED <<current_jobnumber, previous_jobnumber>>

PrintJobStatus ==
    /\ waiter.pc = "idle"
    /\ UNCHANGED env
    /\ \E jobnumber \in {PJS_ALL} \cup 1..MaxJobs, changedonly \in BOOLEAN :
          LET r == print_job_status(Table, jobnumber, changedonly)
          IN  /\ SetTable(r.t)
              /\ Done("print_job_status", jobnumber, changedonly, Len(r.out), FALSE)
    /\ UNCHANGED waitopts_continued

\* The job list and the designations, under jobs of one process each.
SetActiveJob == SetActiveJobOf(MaxJobs, 1)
DoWait == DoWaitOf(QuietWaitpidRuns)

Next ==
    \/ SetActiveJob
    \/ AddJob
    \/ RemoveJob
    \/ RemoveAllJobs
    \/ DoWait
    \/ PrintJobStatus

Spec == Init /\ [][Next]_vars

\* The reaper, under jobs of up to MaxProcs processes and every result waitpid
\* can give, failures included.
SetActiveJobReap == SetActiveJobOf(MaxReapJobs, MaxProcs)
DoWaitReap == DoWaitOf(WaitpidRuns)

NextReap ==
    \/ SetActiveJobReap
    \/ AddJob
    \/ RemoveAllJobs
    \/ DoWaitReap

SpecReap == Init /\ [][NextReap]_vars

\* ------------------------------------------------ the waiter and the signals

\* sig.blocked is the signal mask of the shell: SIGCHLD (and SIGHUP with it) is
\* blocked. A SIGCHLD raised while it is blocked stays pending; raised or
\* unblocked otherwise, it runs the handler, which notes it in sig.received.
block_sigchld_and_sighup(sg) == [sg EXCEPT !.blocked = TRUE]

unblock_sigchld_and_sighup(sg) ==
    [blocked |-> FALSE, pending |-> FALSE, received |-> sg.received \/ sg.pending]

\* A faulty wait_for_job that does not block the signals: C10 tells it from
\* wait_for_job_enter.
wait_for_job_enter_unblocked(sg) == sg

\* wait_for_job, up to its loop: the signals are blocked.
wait_for_job_enter(sg) == block_sigchld_and_sighup(sg)

\* A faulty test that leaves the loop on a stopped job whatever return_on_stop
\* is: C9 tells it from wait_for_job_done.
wait_for_job_done_on_stop(job, return_on_stop) ==
    job.j_status = JS_DONE \/ job.j_status = JS_STOPPED

\* The two tests of the loop of wait_for_job that leave it.
wait_for_job_done(job, return_on_stop) ==
    \/ job.j_status = JS_DONE
    \/ return_on_stop /\ job.j_status = JS_STOPPED

\* The status word waitpid reports of a child that changed state.
StatusWord(state) ==
    IF state = "exited" THEN W_EXITED0
    ELSE IF state = "stopped" THEN W_STOPPED_TSTP ELSE W_CONTINUED

\* The orders in which the elements of S can come.
RECURSIVE Orders(_)
Orders(S) ==
    IF S = {} THEN {<<>>}
    ELSE UNION {{<<x>> \o q : q \in Orders(S \ {x})} : x \in S}

\* The children after a drain: every change is reported, an exited child gone.
Reaped(ch) ==
    [pid \in 1..MaxPid |->
        IF ch[pid].state = "exited" THEN NoChild ELSE [ch[pid] EXCEPT !.changed = FALSE]]

\* The waitpid results of a drain of the children ch: every child that changed
\* state, in any order, then "no child has changed", or ECHILD when no child
\* is left.
ChildRuns(ch) ==
    {q \o <<IF \A pid \in 1..MaxPid : Reaped(ch)[pid] = NoChild
            THEN Failure(ECHILD) ELSE NoChange>> :
        q \in {[k \in 1..Len(o) |->
                   [pid |-> o[k], status |-> StatusWord(ch[o[k]].state), errno |-> NOERR]] :
               o \in Orders({pid \in 1..MaxPid : ch[pid].changed})}}

\* The executor forks the processes of a job and calls set_active_job.
ForkActiveJob ==
    /\ waiter.pc = "idle"
    /\ joblist[ACTIVE_JOBNO + 1] = NULL
    /\ Cardinality(NumberedJobs(joblist)) < MaxWaitJobs
    /\ \E job \in NewJobsFrom({pid \in (1..MaxPid) \ PidsInUse(joblist) :
                                  children[pid] = NoChild}, MaxProcs) :
          /\ joblist' = [joblist EXCEPT ![ACTIVE_JOBNO + 1] = job]
          /\ children' = [pid \in 1..MaxPid |->
                             IF \E k \in 1..Len(job.j_procs) : job.j_procs[k].pr_pid = pid
                             THEN RunningChild ELSE children[pid]]
    /\ UNCHANGED <<current_jobnumber, previous_jobnumber, waitopts_continued, sig, waiter>>
    /\ Done("set_active_job", ACTIVE_JOBNO, FALSE, 0, FALSE)

\* A child stops, continues or exits, and SIGCHLD is raised: it stays pending
\* while blocked; else the handler runs, and a shell suspended in sigsuspend
\* wakes.
ChildChange ==
    /\ \E pid \in 1..MaxPid, state \in {"running", "stopped", "exited"} :
          /\ children[pid].state \in {"running", "stopped"}
          /\ children[pid].state # state
          /\ children' = [children EXCEPT ![pid] = [state |-> state, changed |-> TRUE]]
    /\ IF sig.blocked /\ waiter.pc # "suspended"
       THEN /\ sig' = [sig EXCEPT !.pending = TRUE]
            /\ UNCHANGED waiter
       ELSE /\ sig' = [sig EXCEPT !.received = TRUE]
            /\ waiter' = IF waiter.pc = "suspended"
                         THEN [waiter EXCEPT !.pc = "wait_for_sigchld"]
                         ELSE waiter
    /\ UNCHANGED <<joblist, current_jobnumber, previous_jobnumber, waitopts_continued, last>>

\* do_wait() on the children of the operating system.
DoWaitChildren ==
    /\ waiter.pc = "idle"
    /\ \E rs \in ChildRuns(children) :
          LET r == do_wait(joblist, waitopts_continued, rs)
          IN  /\ r.returned
              /\ r.unread = <<>>
              /\ joblist' = r.joblist
              /\ waitopts_continued' = r.waitopts_continued
              /\ Done("do_wait", 0, FALSE, 0, r.xerror)
    /\ children' = Reaped(children)
    /\ UNCHANGED <<current_jobnumber, previous_jobnumber, sig, waiter>>

\* wait_for_job(jobnumber, return_on_stop) is called.
WaitForJob ==
    /\ waiter.pc = "idle"
    /\ \E jobnumber \in 0..(Len(joblist) - 1), return_on_stop \in BOOLEAN :
          /\ joblist[jobnumber + 1] # NULL
          /\ waiter' = [pc |-> "loop", jobnumber |-> jobnumber,
                        return_on_stop |-> return_on_stop,
                        held_on_entry |-> wait_for_job_done(joblist[jobnumber + 1],
                                                            return_on_stop),
                        waited |-> FALSE, unblocks |-> 0]
    /\ sig' = wait_for_job_enter(sig)
    /\ UNCHANGED <<joblist, current_jobnumber, previous_jobnumber, waitopts_continued,
                   last, children>>

\* One turn of the loop of wait_for_job: the job's state is tested; the call
\* unblocks the signals and returns, or goes on to wait_for_sigchld.
WaitLoop ==
    /\ waiter.pc = "loop"
    /\ IF wait_for_job_done(joblist[waiter.jobnumber + 1], waiter.return_on_stop)
       THEN /\ sig' = unblock_sigchld_and_sighup(sig)
            /\ waiter' = [waiter EXCEPT !.pc = "idle", !.unblocks = @ + 1]
            /\ Done("wait_for_job", waiter.jobnumber, waiter.return_on_stop, 0, FALSE)
       ELSE /\ waiter' = [waiter EXCEPT !.pc = "wait_for_sigchld", !.waited = TRUE]
            /\ UNCHANGED <<sig, last>>
    /\ UNCHANGED <<joblist, current_jobnumber, previous_jobnumber, waitopts_continued,
                   children>>

\* wait_for_sigchld: a SIGCHLD the handler has noted is taken, the reaper run,
\* and the primitive returns; else the shell goes on to suspend.
WaitForSigchld ==
    /\ waiter.pc = "wait_for_sigchld"
    /\ IF sig.received
       THEN /\ sig' = [sig EXCEPT !.received = FALSE]
            /\ waiter' = [waiter EXCEPT !.pc = "loop"]
            /\ \E rs \in ChildRuns(children) :
                  LET r == do_wait(joblist, waitopts_continued, rs)
                  IN  /\ r.returned
                      /\ r.unread = <<>>
                      /\ joblist' = r.joblist
                      /\ waitopts_continued' = r.waitopts_continued
            /\ children' = Reaped(children)
       ELSE /\ waiter' = [waiter EXCEPT !.pc = "sigsuspend"]
            /\ UNCHANGED <<sig, joblist, waitopts_continued, children>>
    /\ UNCHANGED <<current_jobnumber, previous_jobnumber, last>>

\* sigsuspend: in one step the signals are unblocked and the shell suspended.
\* A pending SIGCHLD runs the handler at once and sigsuspend returns, the mask
\* as it was before.
Sigsuspend ==
    /\ waiter.pc = "sigsuspend"
    /\ IF sig.pending
       THEN /\ sig' = [sig EXCEPT !.pending = FALSE, !.received = TRUE]
            /\ waiter' = [waiter EXCEPT !.pc = "wait_for_sigchld"]
       ELSE /\ waiter' = [waiter EXCEPT !.pc = "suspended"]
            /\ UNCHANGED sig
    /\ UNCHANGED <<joblist, current_jobnumber, previous_jobnumber, waitopts_continued,
                   last, children>>

NextWait ==
    \/ ForkActiveJob
    \/ AddJob
    \/ PrintJobStatus
    \/ DoWaitChildren
    \/ ChildChange
    \/ WaitForJob
    \/ WaitLoop
    \/ WaitForSigchld
    \/ Sigsuspend

SpecWait == Init /\ [][NextWait]_vars

\* The steps of a call of wait_for_job; at most one of them is enabled.
WaitStep == WaitLoop \/ WaitForSigchld \/ Sigsuspend

NextWaitLive ==
    \/ ForkActiveJob
    \/ AddJob
    \/ DoWaitChildren
    \/ ChildChange
    \/ WaitForJob
    \/ WaitLoop
    \/ WaitForSigchld
    \/ Sigsuspend

\* The shell runs on while it can: a call of wait_for_job that can take a step
\* takes it. Nothing is assumed of the children.
SpecWaitLive == Init /\ [][NextWaitLive]_vars /\ WF_vars(WaitStep)

\* ------------------------------------------------- the statuses of children

\* What can happen to a child: it exits with a code, is killed by a signal
\* (SIGKILL, or SIGSEGV, which may leave a core dump), is stopped by a signal,
\* or is continued.
ExitCodes == {0, 3}
TermSignals == {9, 11}
CoreSignals == {11}
StopSignals == {19, 20}
ChildEvents ==
    [kind : {"exited"}, value : ExitCodes, core : {FALSE}]
    \cup [kind : {"signalled"}, value : TermSignals, core : {FALSE}]
    \cup [kind : {"signalled"}, value : CoreSignals, core : {TRUE}]
    \cup [kind : {"stopped"}, value : StopSignals, core : {FALSE}]
    \cup [kind : {"continued"}, value : {0}, core : {FALSE}]

\* The status word waitpid gives for it.
StatusWordOf(e) ==
    IF e.kind = "exited" THEN e.value * 256
    ELSE IF e.kind = "signalled" THEN e.value + (IF e.core THEN 128 ELSE 0)
    ELSE IF e.kind = "stopped" THEN e.value * 256 + 127
    ELSE W_CONTINUED

\* A process the executor ran without forking, which left the exit code code.
UnforkedProcessOf(code) == [pr_pid |-> 0, pr_status |-> JS_DONE, pr_statuscode |-> code]

\* One drain: at most one child's status change, then "no child has changed".
StatusRuns ==
    {<<NoChange>>}
    \cup {<<[pid |-> pid, status |-> StatusWordOf(e), errno |-> NOERR], NoChange>> :
             pid \in 1..MaxPid, e \in ChildEvents}

SetActiveJobStatus ==
    /\ waiter.pc = "idle"
    /\ UNCHANGED env
    /\ joblist[ACTIVE_JOBNO + 1] = NULL
    /\ NumberedJobs(joblist) = {}
    /\ \E job \in NewJobsOf((1..MaxPid) \ PidsInUse(joblist), MaxProcs,
                            {UnforkedProcessOf(code) : code \in ExitCodes}) :
          joblist' = [joblist EXCEPT ![ACTIVE_JOBNO + 1] = job]
    /\ UNCHANGED <<current_jobnumber, previous_jobnumber, waitopts_continued>>
    /\ Done("set_active_job", ACTIVE_JOBNO, FALSE, 0, FALSE)

DoWaitStatus == DoWaitOf(StatusRuns)

NextStatus ==
    \/ SetActiveJobStatus
    \/ AddJob
    \/ RemoveAllJobs
    \/ DoWaitStatus

SpecStatus == Init /\ [][NextStatus]_vars

\* ------------------------------------------------------------------ claims

\* C1: in every reachable state, a non-zero current job number names a job of
\* the list (get_job gives a job for it), and so does a non-zero previous job
\* number.
C1_DesignationsNameJobs ==
    /\ current_jobnumber # 0 => get_job(joblist, current_jobnumber) # NULL
    /\ previous_jobnumber # 0 => get_job(joblist, previous_jobnumber) # NULL

\* remove_job of the current job has handed the designation on to the job that
\* was previous, and a new previous job was found.
C1_Witness ==
    /\ last.op = "remove_job"
    /\ last.jobnumber # 0
    /\ get_job(joblist, last.jobnumber) = NULL
    /\ current_jobnumber # 0
    /\ previous_jobnumber # 0

\* C2: in every reachable state, the current and the previous job numbers
\* differ, unless both are 0 or at most one numbered job is in the list.
C2_CurrentDiffersFromPrevious ==
    current_jobnumber = previous_jobnumber
        => \/ current_jobnumber = 0 /\ previous_jobnumber = 0
           \/ Cardinality(NumberedJobs(joblist)) <= 1

\* Three numbered jobs, two of them designated, after a removal left a gap
\* that add_job filled.
C2_Witness ==
    /\ last.op = "add_job"
    /\ Cardinality(NumberedJobs(joblist)) = 3
    /\ current_jobnumber # 0
    /\ previous_jobnumber # 0
    /\ current_jobnumber # previous_jobnumber

\* The state a job has by the precedence rule, from its processes alone.
AggregateState(job) ==
    IF \E k \in 1..Len(job.j_procs) : job.j_procs[k].pr_status = JS_RUNNING
    THEN JS_RUNNING
    ELSE IF \E k \in 1..Len(job.j_procs) : job.j_procs[k].pr_status = JS_STOPPED
         THEN JS_STOPPED
         ELSE JS_DONE

\* C3: after any drains of do_wait, every job of the list, the active job in
\* slot 0 included, has the state RUNNING if one of its processes is running,
\* else STOPPED if one is stopped, else DONE; it is DONE exactly when every one
\* of its processes is DONE.
C3_JobStatusIsAggregate ==
    \A i \in 1..Len(joblist) :
        joblist[i] # NULL =>
            /\ joblist[i].j_status = AggregateState(joblist[i])
            /\ joblist[i].j_status = JS_DONE
                   <=> \A k \in 1..Len(joblist[i].j_procs) :
                           joblist[i].j_procs[k].pr_status = JS_DONE

\* A drain has left a job of two processes STOPPED: its first process is done
\* and its second stopped, and the change was flagged.
C3_Witness ==
    /\ last.op = "do_wait"
    /\ \E i \in 1..Len(joblist) :
          /\ joblist[i] # NULL
          /\ Len(joblist[i].j_procs) = 2
          /\ joblist[i].j_procs[1].pr_status = JS_DONE
          /\ joblist[i].j_procs[1].pr_pid # 0
          /\ joblist[i].j_procs[2].pr_status = JS_STOPPED
          /\ joblist[i].j_status = JS_STOPPED
          /\ joblist[i].j_statuschanged

\* The empty elements of the list at an index of 1 or more.
EmptySlots(jl) == {i \in 1..(Len(jl) - 1) : jl[i + 1] = NULL}

Max(S) == CHOOSE x \in S : \A y \in S : y <= x
Min(S) == CHOOSE x \in S : \A y \in S : x <= y

\* C4: wherever an active job is installed, add_job(true) puts it at the lowest
\* index of 1 or more that was empty (index 1 when no job is numbered, one
\* past the end when no element was empty), leaves slot 0 empty and every other
\* job where it was, and makes that index the current job number.
C4_PromoteTakesLowestEmptySlot ==
    joblist[ACTIVE_JOBNO + 1] # NULL =>
        LET t == add_job(Table, TRUE)
            slot == IF EmptySlots(joblist) # {} THEN Min(EmptySlots(joblist))
                    ELSE Len(joblist)
        IN  /\ get_job(t.joblist, slot) = joblist[ACTIVE_JOBNO + 1]
            /\ get_job(t.joblist, ACTIVE_JOBNO) = NULL
            /\ t.current_jobnumber = slot
            /\ Len(t.joblist) = IF slot = Len(joblist) THEN slot + 1 ELSE Len(joblist)
            /\ \A i \in NumberedJobs(joblist) : get_job(t.joblist, i) = joblist[i + 1]
            /\ NumberedJobs(joblist) = {} => slot = 1

\* add_job(true) has filled the gap at index 2 between jobs 1 and 3.
C4_Witness ==
    /\ last.op = "add_job"
    /\ last.flag
    /\ NumberedJobs(joblist) = {1, 2, 3}
    /\ current_jobnumber = 2
    /\ joblist[ACTIVE_JOBNO + 1] = NULL

\* The job find_next is to give: 0 when no numbered job other than excl is in
\* the list, else the highest stopped one other than excl, else the highest
\* one other than excl.
NextCandidate(jl, excl) ==
    LET others == NumberedJobs(jl) \ {excl}
        stopped == {i \in others : jl[i + 1].j_status = JS_STOPPED}
    IN  IF others = {} THEN 0
        ELSE IF stopped # {} THEN Max(stopped) ELSE Max(others)

\* The list without job n: its element emptied, the empty tail cut.
Without(jl, n) ==
    LET emptied == [jl EXCEPT ![n + 1] = NULL]
        kept == {i \in 0..(Len(jl) - 1) : emptied[i + 1] # NULL}
    IN  SubSeq(emptied, 1, IF kept = {} THEN 1 ELSE Max(kept) + 1)

\* C5: wherever a current job exists, remove_job of it makes the old previous
\* job (still in the list) the current one, and the new previous job is the
\* one find_next is to give for the new current job on the list after the
\* removal.
C5_RemoveCurrent ==
    current_jobnumber # 0 =>
        LET t == remove_job(Table, current_jobnumber)
        IN  /\ t.joblist = Without(joblist, current_jobnumber)
            /\ t.current_jobnumber = previous_jobnumber
            /\ t.current_jobnumber # 0 => get_job(t.joblist, t.current_jobnumber) # NULL
            /\ t.previous_jobnumber = NextCandidate(t.joblist, t.current_jobnumber)

\* The example of the claim: of jobs 1, 2, 3 the current job 2 was removed;
\* job 1 is current now and the stopped job 3 previous.
C5_Witness ==
    /\ last.op = "remove_job"
    /\ last.jobnumber = 2
    /\ last.flag
    /\ NumberedJobs(joblist) = {1, 3}
    /\ joblist[3 + 1].j_status = JS_STOPPED
    /\ joblist[1 + 1].j_status # JS_STOPPED
    /\ current_jobnumber = 1
    /\ previous_jobnumber = 3

\* C6: on every list and for every excl, find_next_job gives 0 exactly when no
\* numbered job other than excl is in the list; otherwise the highest stopped
\* job other than excl if there is one, else the highest job other than excl.
\* It never gives excl (for excl # 0) and never slot 0.
C6_FindNext ==
    \A excl \in 0..(MaxJobs + 1) :
        LET n == find_next_job(joblist, excl)
        IN  /\ n = NextCandidate(joblist, excl)
            /\ n = 0 <=> NumberedJobs(joblist) \ {excl} = {}
            /\ excl # 0 => n # excl
            /\ n # 0 => n \in NumberedJobs(joblist)

\* An active job in slot 0, job 1 stopped under a running job 2: the stopped
\* job 1 is preferred to the higher running job 2, job 2 is found when 1 is
\* excluded, and slot 0 is never found.
C6_Witness ==
    /\ joblist[ACTIVE_JOBNO + 1] # NULL
    /\ NumberedJobs(joblist) = {1, 2}
    /\ joblist[1 + 1].j_status = JS_STOPPED
    /\ joblist[2 + 1].j_status = JS_RUNNING
    /\ find_next_job(joblist, 0) = 1
    /\ find_next_job(joblist, 1) = 2
    /\ find_next_job(joblist, 2) = 1

\* C7, as claimed: in every reachable state job_count gives the number of
\* jobs at an index of 1 or more, also while slot 0 holds the active job.
C7_CountIsNumberedJobs ==
    job_count(joblist) = Cardinality(NumberedJobs(joblist))

\* C7, amended: job_count gives the number of jobs of the whole list, slot 0
\* included: the numbered jobs, and one more while an active job is installed.
C7_CountIncludesActiveJob ==
    /\ job_count(joblist)
           = Cardinality({i \in 0..(Len(joblist) - 1) : joblist[i + 1] # NULL})
    /\ job_count(joblist)
           = Cardinality(NumberedJobs(joblist))
             + (IF joblist[ACTIVE_JOBNO + 1] # NULL THEN 1 ELSE 0)

\* An active job is installed beside two numbered jobs: job_count gives 3.
C7_Witness ==
    /\ last.op = "set_active_job"
    /\ joblist[ACTIVE_JOBNO + 1] # NULL
    /\ Cardinality(NumberedJobs(joblist)) = 2
    /\ job_count(joblist) = 3

\* C8: print_job_status(n, changedonly = false) of a numbered job n prints one
\* line and clears the job's changed flag; of a DONE job it then does what
\* remove_job(n) does, so that a print_job_status(n) right after finds no job
\* and prints nothing; a RUNNING or STOPPED job stays where it is and nothing
\* else changes.
C8_PrintRemovesDoneJobsOnly ==
    \A n \in NumberedJobs(joblist) :
        LET job == joblist[n + 1]
            r == print_job_status(Table, n, FALSE)
        IN  /\ Len(r.out) = 1
            /\ IF job.j_status = JS_DONE
               THEN /\ get_job(r.t.joblist, n) = NULL
                    /\ r.t.joblist = Without(joblist, n)
                    /\ r.t.current_jobnumber = remove_job(Table, n).current_jobnumber
                    /\ r.t.previous_jobnumber = remove_job(Table, n).previous_jobnumber
                    /\ \A changedonly \in BOOLEAN :
                           /\ print_job_status(r.t, n, changedonly).out = <<>>
                           /\ print_job_status(r.t, n, changedonly).t = r.t
               ELSE /\ r.t.joblist = [joblist EXCEPT ![n + 1].j_statuschanged = FALSE]
                    /\ r.t.current_jobnumber = current_jobnumber
                    /\ r.t.previous_jobnumber = previous_jobnumber

\* print_job_status(2, false) has printed the line of job 2, the current job,
\* and removed it: it was DONE; jobs 1 and 3 are still there.
C8_Witness ==
    /\ last.op = "print_job_status"
    /\ last.jobnumber = 2
    /\ ~last.flag
    /\ last.printed = 1
    /\ NumberedJobs(joblist) = {1, 3}
    /\ print_job_status(Table, 2, FALSE).out = <<>>

\* The job wait_for_job returned for, or is waiting for.
WaitedJob == joblist[waiter.jobnumber + 1]

\* C9: wait_for_job(n, return_on_stop) returns only when job n is DONE, or is
\* STOPPED and return_on_stop is true; if that holds on entry it never
\* suspends; the signals are blocked whenever the job's state is tested, and are
\* unblocked exactly once, on return.
C9_WaitForJobReturns ==
    /\ (last.op = "wait_for_job" /\ waiter.pc = "idle") =>
           /\ \/ WaitedJob.j_status = JS_DONE
              \/ waiter.return_on_stop /\ WaitedJob.j_status = JS_STOPPED
           /\ waiter.unblocks = 1
           /\ ~sig.blocked
    /\ waiter.held_on_entry => ~waiter.waited
    /\ waiter.pc = "loop" => sig.blocked
    /\ waiter.pc # "idle" => waiter.unblocks = 0

\* wait_for_job(n, true) went through wait_for_sigchld and returned on a
\* stopped job.
C9_Witness ==
    /\ last.op = "wait_for_job"
    /\ waiter.pc = "idle"
    /\ waiter.return_on_stop
    /\ waiter.waited
    /\ WaitedJob.j_status = JS_STOPPED
    /\ waiter.unblocks = 1

\* The state the operating system has for the processes of a job.
ChildrenState(job) ==
    LET truth(pr) == IF pr.pr_pid = 0 THEN pr.pr_status
                     ELSE IF children[pr.pr_pid].state = "running" THEN JS_RUNNING
                     ELSE IF children[pr.pr_pid].state = "stopped" THEN JS_STOPPED
                     ELSE JS_DONE
    IN  IF \E k \in 1..Len(job.j_procs) : truth(job.j_procs[k]) = JS_RUNNING
        THEN JS_RUNNING
        ELSE IF \E k \in 1..Len(job.j_procs) : truth(job.j_procs[k]) = JS_STOPPED
             THEN JS_STOPPED
             ELSE JS_DONE

\* A call of wait_for_job is under way, and the condition it waits for holds
\* in the operating system.
Waiting == waiter.pc # "idle"
Awaited ==
    \/ ChildrenState(WaitedJob) = JS_DONE
    \/ waiter.return_on_stop /\ ChildrenState(WaitedJob) = JS_STOPPED

\* C10, safety: the shell is never suspended while the awaited condition holds
\* in the operating system.
C10_NeverSuspendedOnAwaited ==
    waiter.pc = "suspended" => ~Awaited /\ ~sig.pending /\ ~sig.received

\* C10: no wakeup is lost. A call of wait_for_job whose awaited condition has
\* come to hold in the operating system returns, or the condition ceases to
\* hold (a stopped process is continued); the shell is never left suspended on
\* it.
C10_NoLostWakeup ==
    /\ [](waiter.pc = "suspended" => ~Awaited /\ ~sig.pending /\ ~sig.received)
    /\ (Waiting /\ Awaited) ~> (~Waiting \/ ~Awaited)

\* The shell is suspended in wait_for_job on a running job, after a SIGCHLD
\* that came while the signals were blocked woke it once already.
C10_Witness ==
    /\ waiter.pc = "suspended"
    /\ waiter.waited
    /\ ChildrenState(WaitedJob) = JS_RUNNING
    /\ \E k \in 1..Len(WaitedJob.j_procs) : WaitedJob.j_procs[k].pr_status = JS_STOPPED

\* What do_wait does, in any reachable state, when its first waitpid call
\* fails with EINVAL and the next reports that no child has changed.
AfterEinval == do_wait(joblist, waitopts_continued, <<Failure(EINVAL), NoChange>>)

\* C11: an EINVAL while WCONTINUED is set clears it and the call is repeated
\* in the same drain without xerror; an EINVAL while it is clear calls xerror
\* and ends the drain; and once WCONTINUED is cleared no step sets it again.
C11_ContinuedClearedForGood ==
    /\ [](/\ AfterEinval.returned
          /\ ~AfterEinval.waitopts_continued
          /\ AfterEinval.joblist = joblist
          /\ waitopts_continued =>
                 ~AfterEinval.xerror /\ AfterEinval.unread = <<>>
          /\ ~waitopts_continued =>
                 AfterEinval.xerror /\ AfterEinval.unread = <<NoChange>>)
    /\ [][~waitopts_continued => ~waitopts_continued']_vars

\* A drain cleared WCONTINUED and ended without xerror, with jobs in the list.
C11_Witness ==
    /\ last.op = "do_wait"
    /\ ~last.xerror
    /\ ~waitopts_continued
    /\ NumberedJobs(joblist) # {}

\* C12, as claimed: a process that is DONE stays DONE, and a job that is DONE
\* stays DONE, whatever status change of whatever process id, the process's own
\* included, a later drain of do_wait is given.
C12_DoneIsTerminal ==
    \A r \in ChildResults :
        LET after == do_wait(joblist, waitopts_continued, <<r, NoChange>>).joblist
        IN  \A i \in 1..Len(joblist) :
                joblist[i] # NULL =>
                    /\ \A k \in 1..Len(joblist[i].j_procs) :
                           joblist[i].j_procs[k].pr_status = JS_DONE
                               => after[i].j_procs[k].pr_status = JS_DONE
                    /\ joblist[i].j_status = JS_DONE => after[i].j_status = JS_DONE

\* The status changes waitpid may give before, and after, a failing call: up
\* to MaxCalls - 1 before it, at most one after it.
EventsBefore == {<<>>} \cup SeqsUpTo(ChildResults, MaxCalls - 1)
EventsAfter == {<<>>} \cup {<<r>> : r \in ChildResults}

\* The errors of waitpid that do_wait reports, WCONTINUED being wc.
UnexpectedErrors(wc) == IF wc THEN {EIO} ELSE {EIO, EINVAL}

\* A drain that meets err after the changes before; after are the changes
\* waitpid would have given next. The whole drain is the one without the error.
FailedDrain(before, err, after) ==
    do_wait(joblist, waitopts_continued, before \o <<Failure(err)>> \o after \o <<NoChange>>)
WholeDrain(before, after) ==
    do_wait(joblist, waitopts_continued, before \o after \o <<NoChange>>)

\* The state a status word stands for.
StateOf(status, old) ==
    IF WIFSTOPPED(status) THEN JS_STOPPED
    ELSE IF WIFCONTINUED(status) THEN JS_RUNNING
    ELSE IF WIFEXITED(status) \/ WIFSIGNALED(status) THEN JS_DONE ELSE old

\* The list after one status change r is applied in full: the process of the
\* first job that has r.pid takes the status word and its state, the job its
\* aggregate state, and the changed flag is set if that state is new.
ApplyEvent(jl, r) ==
    LET has(i) == jl[i] # NULL /\ \E k \in 1..Len(jl[i].j_procs) : jl[i].j_procs[k].pr_pid = r.pid
    IN  IF \E i \in 1..Len(jl) : has(i)
        THEN LET i == Min({n \in 1..Len(jl) : has(n)})
                 k == Min({n \in 1..Len(jl[i].j_procs) : jl[i].j_procs[n].pr_pid = r.pid})
                 pr == [pr_pid |-> r.pid, pr_statuscode |-> r.status,
                        pr_status |-> StateOf(r.status, jl[i].j_procs[k].pr_status)]
                 procs == [jl[i].j_procs EXCEPT ![k] = pr]
                 state == AggregateState([j_procs |-> procs])
             IN  [jl EXCEPT ![i] = [j_procs |-> procs,
                                    j_status |-> state,
                                    j_statuschanged |-> jl[i].j_statuschanged
                                                        \/ state # jl[i].j_status]]
        ELSE jl

RECURSIVE ApplyEvents(_, _)
ApplyEvents(jl, rs) ==
    IF rs = <<>> THEN jl ELSE ApplyEvents(ApplyEvent(jl, Head(rs)), Tail(rs))

PidsOf(job) == {job.j_procs[k].pr_pid : k \in 1..Len(job.j_procs)} \ {0}

\* The step just taken may have removed job i: remove_job(i), remove_all_jobs,
\* or print_job_status of the job, or of all jobs, the job being DONE.
MayRemove(i) ==
    \/ last'.op = "remove_job" /\ last'.jobnumber = i
    \/ last'.op = "remove_all_jobs"
    \/ /\ last'.op = "print_job_status"
       /\ last'.jobnumber \in {i, PJS_ALL}
       /\ joblist[i + 1].j_status = JS_DONE

\* C14: a numbered job keeps its number. After every step, a job that was at
\* index i >= 1 is still at index i, unless the step removed it, and then it is
\* nowhere in the list.
C14_JobNumbersAreStable ==
    [][\A i \in NumberedJobs(joblist) :
           \/ /\ i \in NumberedJobs(joblist')
              /\ PidsOf(joblist'[i + 1]) = PidsOf(joblist[i + 1])
           \/ /\ MayRemove(i)
              /\ \A n \in 1..Len(joblist') :
                     joblist'[n] # NULL
                         => PidsOf(joblist'[n]) \cap PidsOf(joblist[i + 1]) = {}]_vars

\* Job 1 was removed from under jobs 2 and 3, which kept their numbers above
\* the gap.
C14_Witness ==
    /\ last.op = "remove_job"
    /\ last.jobnumber = 1
    /\ NumberedJobs(joblist) = {2, 3}

\* C15: remove_all_jobs, in any reachable state, leaves every element of the
\* list empty, slot 0 included, the count 0 and no current or previous job;
\* every job of the list is freed exactly once, and every element written is
\* inside the list.
C15_RemoveAllEmptiesTheList ==
    LET after == remove_all_jobs(Table)
        trace == remove_all_trace(Table, 0, <<>>, {})
    IN  /\ \A i \in 1..Len(after.joblist) : after.joblist[i] = NULL
        /\ job_count(after.joblist) = 0
        /\ after.current_jobnumber = 0
        /\ after.previous_jobnumber = 0
        /\ trace.t.joblist = after.joblist
        /\ Len(trace.freed) = Cardinality({i \in 1..Len(joblist) : joblist[i] # NULL})
        /\ \A i \in 1..Len(joblist) :
               joblist[i] # NULL
                   => Cardinality({n \in 1..Len(trace.freed) :
                                      trace.freed[n] = joblist[i]}) = 1
        /\ \A w \in trace.written : w.index < w.length

\* An active job in slot 0, jobs 1 and 3 around an empty element, both
\* designated: remove_all_jobs frees the three and writes the empty element too.
C15_Witness ==
    /\ joblist[ACTIVE_JOBNO + 1] # NULL
    /\ NumberedJobs(joblist) = {1, 3}
    /\ current_jobnumber # 0
    /\ previous_jobnumber # 0
    /\ Len(remove_all_trace(Table, 0, <<>>, {}).freed) = 3
    /\ remove_all_jobs(Table).joblist = <<NULL>>

\* What happened to the child that a status word tells of.
EventOf(status) == CHOOSE e \in ChildEvents : StatusWordOf(e) = status

\* The exit status of a DONE or STOPPED job as the claim states it, from what
\* happened to its processes.
ExitStatusOf(job) ==
    LET tail == job.j_procs[Len(job.j_procs)]
        stopped == Max({k \in 1..Len(job.j_procs) : job.j_procs[k].pr_status = JS_STOPPED})
    IN  IF job.j_status = JS_DONE
        THEN IF tail.pr_pid = 0
             THEN tail.pr_statuscode
             ELSE IF EventOf(tail.pr_statuscode).kind = "exited"
                  THEN EventOf(tail.pr_statuscode).value
                  ELSE EventOf(tail.pr_statuscode).value + TERMSIGOFFSET
        ELSE EventOf(job.j_procs[stopped].pr_statuscode).value + TERMSIGOFFSET

\* C16: calc_status_of_job of a DONE job is the raw status of its last process
\* if that ran unforked, else its exit code, or the signal that killed it plus
\* TERMSIGOFFSET; of a STOPPED job it is the stop signal plus TERMSIGOFFSET of
\* the stopped process nearest the end, whatever the processes after it.
C16_ExitStatusOfJob ==
    \A i \in 1..Len(joblist) :
        (joblist[i] # NULL /\ joblist[i].j_status \in {JS_DONE, JS_STOPPED})
            => /\ calc_status_of_job(joblist[i]) = ExitStatusOf(joblist[i])
               /\ joblist[i].j_status = JS_STOPPED
                      => EventOf(joblist[i].j_procs[
                             Max({k \in 1..Len(joblist[i].j_procs) :
                                     joblist[i].j_procs[k].pr_status = JS_STOPPED})
                             ].pr_statuscode).kind = "stopped"

\* A job of two processes: the first stopped by SIGTSTP, the last killed by a
\* signal; its exit status is that of the first.
C16_Witness ==
    \E i \in 1..Len(joblist) :
        /\ joblist[i] # NULL
        /\ Len(joblist[i].j_procs) = 2
        /\ joblist[i].j_status = JS_STOPPED
        /\ joblist[i].j_procs[1].pr_status = JS_STOPPED
        /\ joblist[i].j_procs[1].pr_statuscode = W_STOPPED_TSTP
        /\ joblist[i].j_procs[2].pr_status = JS_DONE
        /\ WIFSIGNALED(joblist[i].j_procs[2].pr_statuscode)
        /\ calc_status_of_job(joblist[i]) = 20 + TERMSIGOFFSET

\* C17, as claimed: the status string of a DONE process with a process id that
\* a signal killed is "Killed (SIG<name>: core dumped)" exactly when its status
\* word says it dumped core, and "Killed (SIG<name>)" otherwise.
C17_KilledStringTellsCoreDump ==
    \A i \in 1..Len(joblist) :
        joblist[i] # NULL =>
            \A k \in 1..Len(joblist[i].j_procs) :
                LET p == joblist[i].j_procs[k]
                IN  (p.pr_status = JS_DONE /\ p.pr_pid # 0 /\ WIFSIGNALED(p.pr_statuscode))
                        => get_process_status_string(p)
                               = IF EventOf(p.pr_statuscode).core
                                 THEN "Killed (SIG"
                                      \o get_signal_name(EventOf(p.pr_statuscode).value)
                                      \o ": core dumped)"
                                 ELSE "Killed (SIG"
                                      \o get_signal_name(EventOf(p.pr_statuscode).value)
                                      \o ")"

\* The index add_job puts the active job at.
NewSlot == IF EmptySlots(joblist) # {} THEN Min(EmptySlots(joblist)) ELSE Len(joblist)

\* C18: add_job(false) makes the new job the current one if there is no
\* current job; else the previous one if there is no previous job, the current
\* job staying; else it leaves both. add_job(true) makes the new job the
\* current one, and the job that was current the previous one.
C18_PromoteDesignations ==
    joblist[ACTIVE_JOBNO + 1] # NULL =>
        /\ current_jobnumber = 0
               => add_job(Table, FALSE).current_jobnumber = NewSlot
        /\ (current_jobnumber # 0 /\ previous_jobnumber = 0)
               => /\ add_job(Table, FALSE).current_jobnumber = current_jobnumber
                  /\ add_job(Table, FALSE).previous_jobnumber = NewSlot
        /\ (current_jobnumber # 0 /\ previous_jobnumber # 0)
               => /\ add_job(Table, FALSE).current_jobnumber = current_jobnumber
                  /\ add_job(Table, FALSE).previous_jobnumber = previous_jobnumber
        /\ add_job(Table, TRUE).current_jobnumber = NewSlot
        /\ current_jobnumber # 0
               => add_job(Table, TRUE).previous_jobnumber = current_jobnumber

\* add_job(false) has added job 3 to jobs 1 and 2: job 2 is still the current
\* job and job 1 the previous one.
C18_Witness ==
    /\ last.op = "add_job"
    /\ ~last.flag
    /\ NumberedJobs(joblist) = {1, 2, 3}
    /\ current_jobnumber = 2
    /\ previous_jobnumber = 1

\* C19: while a numbered job is in the list there is a current job, and while
\* two are there is a previous job too.
C19_DesignationsAreSet ==
    /\ NumberedJobs(joblist) # {} => current_jobnumber # 0
    /\ Cardinality(NumberedJobs(joblist)) >= 2 => previous_jobnumber # 0

\* print_job_status of all jobs printed three jobs and removed the finished
\* job 2: the two left are the current and the previous job.
C19_Witness ==
    /\ last.op = "print_job_status"
    /\ last.jobnumber = PJS_ALL
    /\ last.printed = 3
    /\ NumberedJobs(joblist) = {1, 3}
    /\ current_jobnumber # 0
    /\ previous_jobnumber # 0

\* The lines of one print_job_status(PJS_ALL, changedonly) that carry marker.
MarkedLines(changedonly, marker) ==
    LET out == print_job_status(Table, PJS_ALL, changedonly).out
    IN  {n \in 1..Len(out) : out[n].current = marker}

\* C20, as claimed: in one pass of print_job_status over all jobs, from any
\* reachable state, at most one line printed has the marker '+' and at most one
\* the marker '-', also when the pass removes finished jobs.
C20_MarkersAreUnique ==
    \A changedonly \in BOOLEAN :
        /\ Cardinality(MarkedLines(changedonly, "+")) <= 1
        /\ Cardinality(MarkedLines(changedonly, "-")) <= 1

====
